---- MODULE Spec2Model ----
(***************************************************************************)
(* Model of the NRB block-list matcher: src/final.py (exact citizenship    *)
(* match plus fuzzy name match) and src/nrb_block.py (exact match only).   *)
(*                                                                         *)
(* Text is a sequence of one-character strings.  The ten Devanagari digit  *)
(* glyphs are written "d0" .. "d9" and Devanagari letters "dKa", "dU" ...  *)
(* A cell of a DataFrame is a record [t, s, n]: a str (t = "str", text s), *)
(* a float NaN (t = "nan"), a Python None (t = "none"), an int (t = "int",  *)
(* value n) or a float score n / d (t = "float").  A DataFrame is [cols, index, rows]: the column        *)
(* labels, the index labels and, per row, a function from column label to  *)
(* cell.  pandas semantics are those of pandas 1.4 .. 2.x (an explicit     *)
(* value=None in Series.replace replaces by None) and rapidfuzz 3.x (no    *)
(* default preprocessing in process.extractOne).                           *)
(***************************************************************************)
EXTENDS Integers, Sequences, FiniteSets, TLC

\* Bounds of the model: the largest SOURCE and TARGET tables explored.
MaxSrc == 2
MaxTgt == 2

----------------------------------------------------------------------------
(* Cells and text *)

Str(s) == [t |-> "str", s |-> s, n |-> 0, d |-> 1]
NaN == [t |-> "nan", s |-> <<>>, n |-> 0, d |-> 1]
None == [t |-> "none", s |-> <<>>, n |-> 0, d |-> 1]
IntCell(k) == [t |-> "int", s |-> <<>>, n |-> k, d |-> 1]

\* A float score n / d (rapidfuzz scores are floats in 0 .. 100)
Score(num, den) == [t |-> "float", s |-> <<>>, n |-> num, d |-> den]

\* isinstance(x, str)
IsStr(c) == c.t = "str"

\* pd.isna(x) / Series.isna(): NaN and None are both missing
isna(c) == c.t \in {"nan", "none"}

AsciiDigits == <<"0", "1", "2", "3", "4", "5", "6", "7", "8", "9">>
NepaliDigits == <<"d0", "d1", "d2", "d3", "d4", "d5", "d6", "d7", "d8", "d9">>

Range(f) == {f[k] : k \in DOMAIN f}

----------------------------------------------------------------------------
(* Script Normalizer: convert_nepali_number_to_english, convert_numbers *)

\* A mapping that lost the entry for the digit nine.
mapping_get_no_nine(char) ==
  CASE char = "d0" -> "0" [] char = "d1" -> "1" [] char = "d2" -> "2"
    [] char = "d3" -> "3" [] char = "d4" -> "4" [] char = "d5" -> "5"
    [] char = "d6" -> "6" [] char = "d7" -> "7" [] char = "d8" -> "8"
    [] OTHER -> char

\* mapping.get(char, char)
mapping_get(char) ==
  CASE char = "d0" -> "0" [] char = "d1" -> "1" [] char = "d2" -> "2"
    [] char = "d3" -> "3" [] char = "d4" -> "4" [] char = "d5" -> "5"
    [] char = "d6" -> "6" [] char = "d7" -> "7" [] char = "d8" -> "8"
    [] char = "d9" -> "9" [] OTHER -> char

convert_nepali_number_to_english(text) ==
  IF ~IsStr(text) THEN text
  ELSE Str([k \in 1..Len(text.s) |-> mapping_get(text.s[k])])

\* x.dtype == "object": the column holds a str or a None (an int column is
\* int64; read_excel/read_csv never give an all-numeric column dtype object)
IsObjectColumn(df, c) ==
  \E k \in 1..Len(df.rows) : df.rows[k][c].t \in {"str", "none"}

\* df.apply(lambda x: x.map(f) if x.dtype == "object" else x): a new table
convert_numbers(df) ==
  [df EXCEPT !.rows =
     [k \in 1..Len(df.rows) |->
        [c \in DOMAIN df.rows[k] |->
           IF IsObjectColumn(df, c)
           THEN convert_nepali_number_to_english(df.rows[k][c])
           ELSE df.rows[k][c]]]]

----------------------------------------------------------------------------
(* Tables *)

Frame(cols, rows) ==
  [cols |-> cols, index |-> [k \in 1..Len(rows) |-> k - 1], rows |-> rows]

NoFrame == Frame(<<>>, <<>>)

\* All sequences over S of length at most n
SeqUpTo(S, n) == UNION {[1..k -> S] : k \in 0..n}

\* A column that holds an int and no str is int64 (or float64): it cannot
\* also hold a None, and with a NaN it would hold floats, not ints.
Loadable(df) ==
  \A c \in Range(df.cols) :
    (\E k \in 1..Len(df.rows) : df.rows[k][c].t = "int") =>
      ~\E k \in 1..Len(df.rows) : df.rows[k][c].t \in {"none", "nan"}

----------------------------------------------------------------------------
(* Field Cleaner: clean_column *)

IsSpace(ch) == ch = " "

RECURSIVE lstrip(_)
lstrip(s) == IF s # <<>> /\ IsSpace(Head(s)) THEN lstrip(Tail(s)) ELSE s

RECURSIVE rstrip(_)
rstrip(s) ==
  IF s # <<>> /\ IsSpace(s[Len(s)]) THEN rstrip(SubSeq(s, 1, Len(s) - 1)) ELSE s

\* str.strip()
strip(s) == rstrip(lstrip(s))

\* str(n) of a non-negative int
RECURSIVE Decimal(_)
Decimal(k) ==
  IF k < 10 THEN <<AsciiDigits[k + 1]>>
  ELSE Decimal(k \div 10) \o <<AsciiDigits[(k % 10) + 1]>>

\* Series.astype(str), one cell: str(NaN) is "nan", str(None) is "None"
astype_str(c) ==
  CASE c.t = "str" -> c.s
    [] c.t = "nan" -> <<"n", "a", "n">>
    [] c.t = "none" -> <<"N", "o", "n", "e">>
    [] c.t = "int" -> Decimal(c.n)

\* The tokens replaced by None
MissingTokens == {<<"n", "a", "n">>, <<>>, <<" ">>}

\* .astype(str).str.strip() then .replace(['nan', '', ' '], None), one cell
clean_cell(c) ==
  IF strip(astype_str(c)) \in MissingTokens THEN None
  ELSE Str(strip(astype_str(c)))

\* df[column] = ...: the column of df replaced by its cleaned cells
SetCleaned(df, column) ==
  [df EXCEPT !.rows =
     [k \in 1..Len(df.rows) |->
        [df.rows[k] EXCEPT ![column] = clean_cell(df.rows[k][column])]]]

\* clean_column of final.py: df[column] raises KeyError for an absent column.
\* The outcome is [err, df], df being the table object passed in, as mutated.
clean_column_final(df, column) ==
  IF column \notin Range(df.cols) THEN [err |-> "KeyError", df |-> df]
  ELSE [err |-> "none", df |-> SetCleaned(df, column)]

\* clean_column of nrb_block.py: an absent column is skipped
clean_column_block(df, column) ==
  IF column \in Range(df.cols)
  THEN [err |-> "none", df |-> SetCleaned(df, column)]
  ELSE [err |-> "none", df |-> df]

clean_column(app, df, column) ==
  IF app = "final" THEN clean_column_final(df, column)
  ELSE clean_column_block(df, column)


----------------------------------------------------------------------------
(* Exact-Key Matcher: DataFrame.dropna, boolean selection, pd.merge *)

\* The rows of df at the positions pos, index labels kept
SelectRows(df, pos) ==
  [cols |-> df.cols,
   index |-> [k \in 1..Len(pos) |-> df.index[pos[k]]],
   rows |-> [k \in 1..Len(pos) |-> df.rows[pos[k]]]]

\* A dropna that keeps every row.
dropna_keep_all(df, c) == df

\* df.dropna(subset=[c])
dropna(df, c) ==
  SelectRows(df, SelectSeq([k \in 1..Len(df.rows) |-> k],
                           LAMBDA k : ~isna(df.rows[k][c])))

\* df[df[c].isna()]
where_isna(df, c) ==
  SelectRows(df, SelectSeq([k \in 1..Len(df.rows) |-> k],
                           LAMBDA k : isna(df.rows[k][c])))

\* Join keys are equal as values; pd.merge also pairs a missing key with a
\* missing key
KeyMatch(a, b) ==
  \/ isna(a) /\ isna(b)
  \/ a.t = b.t /\ ~isna(a) /\ a.s = b.s /\ a.n = b.n

RECURSIVE Flatten(_)
Flatten(ss) == IF ss = <<>> THEN <<>> ELSE Head(ss) \o Flatten(Tail(ss))

\* The result columns of pd.merge(left, right, left_on=lk, right_on=rk,
\* suffixes=(ls, rs)): a label on both sides gets the suffixes, and a key of
\* the same name on both sides is one column
MergeLeftCols(left, right, lk, rk, ls) ==
  [k \in 1..Len(left.cols) |->
     IF left.cols[k] \in Range(right.cols) /\ ~(left.cols[k] = lk /\ lk = rk)
     THEN left.cols[k] \o ls ELSE left.cols[k]]

MergeRightKept(right, lk, rk) ==
  SelectSeq(right.cols, LAMBDA c : ~(c = rk /\ lk = rk))

MergeRightCols(left, right, lk, rk, rs) ==
  [k \in 1..Len(MergeRightKept(right, lk, rk)) |->
     IF MergeRightKept(right, lk, rk)[k] \in Range(left.cols)
     THEN MergeRightKept(right, lk, rk)[k] \o rs
     ELSE MergeRightKept(right, lk, rk)[k]]

\* One result row: l and r are the index labels of the SOURCE and the TARGET
\* row it was taken from, vals the cells in column order
MergedRow(left, right, i, j, lk, rk) ==
  [l |-> left.index[i], r |-> right.index[j],
   vals |-> [k \in 1..Len(left.cols) |-> left.rows[i][left.cols[k]]]
              \o [k \in 1..Len(MergeRightKept(right, lk, rk)) |->
                    right.rows[j][MergeRightKept(right, lk, rk)[k]]]]

\* A merge that keeps only the first TARGET row of each key.
merge_first_match(left, right, lk, rk, ls, rs) ==
  [cols |-> MergeLeftCols(left, right, lk, rk, ls)
              \o MergeRightCols(left, right, lk, rk, rs),
   rows |->
     Flatten([i \in 1..Len(left.rows) |->
       LET hits == SelectSeq([j \in 1..Len(right.rows) |-> j],
                     LAMBDA j : KeyMatch(left.rows[i][lk], right.rows[j][rk]))
       IN IF hits = <<>> THEN <<>>
          ELSE <<MergedRow(left, right, i, hits[1], lk, rk)>>])]

\* pd.merge(left, right, how='inner', left_on=lk, right_on=rk, suffixes):
\* every pair of rows with matching keys, in the order of the left rows
merge(left, right, lk, rk, ls, rs) ==
  [cols |-> MergeLeftCols(left, right, lk, rk, ls)
              \o MergeRightCols(left, right, lk, rk, rs),
   rows |->
     Flatten([i \in 1..Len(left.rows) |->
       LET hits == SelectSeq([j \in 1..Len(right.rows) |-> j],
                     LAMBDA j : KeyMatch(left.rows[i][lk], right.rows[j][rk]))
       IN [h \in 1..Len(hits) |->
             MergedRow(left, right, i, hits[h], lk, rk)]])]

\* df[label] = value: a new last column holding value in every row
AddColumn(out, label, value) ==
  [cols |-> Append(out.cols, label),
   rows |-> [k \in 1..Len(out.rows) |->
               [out.rows[k] EXCEPT !.vals = Append(@, value)]]]

NoTable == [cols |-> <<>>, rows |-> <<>>]


----------------------------------------------------------------------------
(* Fuzzy Name Matcher: rapidfuzz's fuzz.token_sort_ratio and
   process.extractOne as match_by_name calls them *)

\* Characters in code point order
CodeOrder ==
  <<" ", ".", "0", "1", "2", "3", "4", "5", "6", "7", "8", "9",
    "A", "B", "I", "K", "N", "_",
    "a", "b", "e", "h", "i", "k", "m", "n", "o", "r", "s", "u",
    "dKa", "dMa", "dRa", "dSha", "dSa", "dAa", "dI", "dII", "dU", "dE", "dV",
    "d0", "d1", "d2", "d3", "d4", "d5", "d6", "d7", "d8", "d9">>

ord(ch) == CHOOSE k \in 1..Len(CodeOrder) : CodeOrder[k] = ch

\* str.split(): the maximal runs of characters that are not whitespace
RECURSIVE SplitFrom(_, _)
SplitFrom(s, cur) ==
  IF s = <<>> THEN (IF cur = <<>> THEN <<>> ELSE <<cur>>)
  ELSE IF IsSpace(Head(s))
       THEN (IF cur = <<>> THEN <<>> ELSE <<cur>>) \o SplitFrom(Tail(s), <<>>)
       ELSE SplitFrom(Tail(s), Append(cur, Head(s)))

split(s) == SplitFrom(s, <<>>)

\* a <= b as Python compares str
RECURSIVE StrLeq(_, _)
StrLeq(a, b) ==
  IF a = <<>> THEN TRUE
  ELSE IF b = <<>> THEN FALSE
  ELSE IF Head(a) = Head(b) THEN StrLeq(Tail(a), Tail(b))
  ELSE ord(Head(a)) < ord(Head(b))

RECURSIVE Insert(_, _)
Insert(tok, toks) ==
  IF toks = <<>> THEN <<tok>>
  ELSE IF StrLeq(tok, Head(toks)) THEN <<tok>> \o toks
  ELSE <<Head(toks)>> \o Insert(tok, Tail(toks))

\* sorted(tokens)
RECURSIVE sorted(_)
sorted(toks) == IF toks = <<>> THEN <<>> ELSE Insert(Head(toks), sorted(Tail(toks)))

\* " ".join(tokens)
RECURSIVE join(_)
join(toks) ==
  IF toks = <<>> THEN <<>>
  ELSE IF Len(toks) = 1 THEN Head(toks)
  ELSE Head(toks) \o <<" ">> \o join(Tail(toks))

\* Length of a longest common subsequence
RECURSIVE LCS(_, _)
LCS(a, b) ==
  IF a = <<>> \/ b = <<>> THEN 0
  ELSE IF Head(a) = Head(b) THEN 1 + LCS(Tail(a), Tail(b))
  ELSE LET x == LCS(Tail(a), b)
           y == LCS(a, Tail(b))
       IN IF x >= y THEN x ELSE y

\* fuzz.ratio: 100 * (1 - indel_distance / (len1 + len2)), which is
\* 200 * LCS / (len1 + len2); 100 for two empty strings
ratio(a, b) ==
  IF Len(a) + Len(b) = 0 THEN Score(100, 1)
  ELSE Score(200 * LCS(a, b), Len(a) + Len(b))

\* fuzz.token_sort_ratio
token_sort_ratio(s1, s2) ==
  ratio(join(sorted(split(s1))), join(sorted(split(s2))))

\* x >= y, x > y for scores, and score >= an int
ScoreGeq(x, y) == x.n * y.d >= y.n * x.d
ScoreGt(x, y) == x.n * y.d > y.n * x.d
ScoreAtLeast(x, k) == x.n >= k * x.d

\* process.extractOne(query, choices, scorer=fuzz.token_sort_ratio): the
\* position of the first choice with the highest score, 0 (Python's None)
\* when there is no choice
RECURSIVE BestFrom(_, _, _, _)
BestFrom(query, choices, k, best) ==
  IF k > Len(choices) THEN best
  ELSE IF best = 0
            \/ ScoreGt(token_sort_ratio(query, choices[k]),
                       token_sort_ratio(query, choices[best]))
       THEN BestFrom(query, choices, k + 1, k)
       ELSE BestFrom(query, choices, k + 1, best)

extractOne(query, choices) == BestFrom(query, choices, 1, 0)

\* score >= threshold
accepts(score, threshold) == ScoreAtLeast(score, threshold)

\* df['romanized_name'] = names: a new last column, or the column
\* overwritten
WithRomanized(df, names) ==
  [cols |-> IF "romanized_name" \in Range(df.cols) THEN df.cols
            ELSE Append(df.cols, "romanized_name"),
   index |-> df.index,
   rows |-> [k \in 1..Len(df.rows) |->
               [c \in Range(df.cols) \cup {"romanized_name"} |->
                  IF c = "romanized_name" THEN Str(names[k])
                  ELSE df.rows[k][c]]]]

\* df_adbl[df_adbl['romanized_name'] == match].iloc[0]: the first row with
\* that canonical name
FirstNamed(df_t, match) ==
  CHOOSE j \in 1..Len(df_t.rows) :
    /\ df_t.rows[j]["romanized_name"].s = match
    /\ \A h \in 1..(j - 1) : df_t.rows[h]["romanized_name"].s # match

\* matched_row.drop(labels=['romanized_name'])
DropRomanized(cols) == SelectSeq(cols, LAMBDA c : c # "romanized_name")

\* The labels of merged_row: pd.concat([row, matched_row], keys=['nrb',
\* 'adbl']).reset_index(level=0, drop=True) drops the level holding the keys,
\* so the labels are the bare column labels of both rows; then match_score
MergedLabels(df_s, df_t) ==
  df_s.cols \o DropRomanized(df_t.cols) \o <<"match_score">>

\* merged_row for SOURCE row i and TARGET row j
FuzzyRowOf(df_s, df_t, i, j, score) ==
  [l |-> df_s.index[i], r |-> df_t.index[j],
   vals |-> [k \in 1..Len(df_s.cols) |-> df_s.rows[i][df_s.cols[k]]]
              \o [k \in 1..Len(DropRomanized(df_t.cols)) |->
                    df_t.rows[j][DropRomanized(df_t.cols)[k]]]
              \o <<score>>]

HasDuplicates(labels) ==
  \E a, b \in 1..Len(labels) : a # b /\ labels[a] = labels[b]

Apps == {"final", "nrb_block"}

----------------------------------------------------------------------------
(* Name Canonicalizer: fix_devanagari_abbreviations, romanize_name,
   clean_name *)

Uppercase == <<"A", "B", "I", "K", "N">>
Lowercase == <<"a", "b", "i", "k", "n">>

\* str.lower(), one character
lower(ch) ==
  IF \E k \in 1..Len(Uppercase) : Uppercase[k] = ch
  THEN Lowercase[CHOOSE k \in 1..Len(Uppercase) : Uppercase[k] = ch]
  ELSE ch

\* Devanagari consonants with their ITRANS letters, and the dependent vowel
\* signs with theirs; "dV" is the virama
Consonants == {"dKa", "dSa", "dSha", "dMa", "dRa"}
VowelSigns == {"dU", "dE", "dI", "dII", "dAa"}

ItransOf(ch) ==
  CASE ch = "dKa" -> <<"k">> [] ch = "dSa" -> <<"s">>
    [] ch = "dSha" -> <<"s", "h">> [] ch = "dMa" -> <<"m">>
    [] ch = "dRa" -> <<"r">> [] ch = "dU" -> <<"u">> [] ch = "dE" -> <<"e">>
    [] ch = "dI" -> <<"i">> [] ch = "dII" -> <<"I">> [] ch = "dAa" -> <<"A">>
    [] OTHER -> <<ch>>

\* re's \w: letters, digits and the underscore; a Devanagari consonant is a
\* letter, a vowel sign or virama (a combining mark) is not
IsWord(ch) ==
  \/ ch \in Range(Lowercase) \cup Range(Uppercase)
  \/ ch \in {"e", "h", "m", "o", "r", "s", "u"}
  \/ ch \in Range(AsciiDigits) \cup Range(NepaliDigits)
  \/ ch = "_"
  \/ ch \in Consonants

IsPrefix(pat, s) == Len(pat) <= Len(s) /\ SubSeq(s, 1, Len(pat)) = pat

\* str.replace(pat, rep): every occurrence, left to right, non-overlapping
RECURSIVE Replace(_, _, _)
Replace(s, pat, rep) ==
  IF s = <<>> THEN <<>>
  ELSE IF IsPrefix(pat, s)
       THEN rep \o Replace(SubSeq(s, Len(pat) + 1, Len(s)), pat, rep)
       ELSE <<Head(s)>> \o Replace(Tail(s), pat, rep)

fix_devanagari_abbreviations(text) ==
  IF ~IsStr(text) THEN text
  ELSE Str(Replace(
             Replace(
               Replace(text.s, <<"dKa", "dE", ".", "dSa", "dI">>,
                       <<"dKa", "dE", "dSa", "dII">>),
               <<"dKa", "dU", ".">>, <<"dKa", "dU", "dMa", "dAa", "dRa">>),
             <<"dSha", ".">>, <<"dSha", "dRa", "dV", "dMa", "dAa">>))

\* transliterate(text, DEVANAGARI, ITRANS) of the indic_transliteration
\* library: a consonant carries its vowel sign, loses the inherent "a" before
\* a virama and has it otherwise; anything not Devanagari passes through
RECURSIVE transliterate(_)
transliterate(s) ==
  IF s = <<>> THEN <<>>
  ELSE IF Head(s) \in Consonants
       THEN IF Len(s) >= 2 /\ s[2] \in VowelSigns
            THEN ItransOf(s[1]) \o ItransOf(s[2])
                   \o transliterate(SubSeq(s, 3, Len(s)))
            ELSE IF Len(s) >= 2 /\ s[2] = "dV"
                 THEN ItransOf(s[1]) \o transliterate(SubSeq(s, 3, Len(s)))
                 ELSE ItransOf(s[1]) \o <<"a">> \o transliterate(Tail(s))
       ELSE ItransOf(Head(s)) \o transliterate(Tail(s))

\* romanize_name: '' for a missing name; a value that is not a str makes
\* transliterate raise, and the except branch returns str(name)
romanize_name(name) ==
  IF isna(name) THEN <<>>
  ELSE IF IsStr(fix_devanagari_abbreviations(name))
       THEN transliterate(fix_devanagari_abbreviations(name).s)
       ELSE astype_str(name)

\* clean_name of a str: strip, lower, re.sub(r'[^\w\s]', '', name).  Both
\* callers pass a str (romanize_name and astype(str) return one), so the
\* isinstance branch returning '' is never taken.
clean_name(name) ==
  SelectSeq([k \in 1..Len(strip(name)) |-> lower(strip(name)[k])],
            LAMBDA ch : IsWord(ch) \/ IsSpace(ch))

\* SOURCE: df_nrb[col].apply(romanize_name).apply(clean_name)
romanized_name_nrb(c) == clean_name(romanize_name(c))

\* TARGET: df_adbl[col].astype(str).apply(clean_name)
romanized_name_adbl(c) == clean_name(astype_str(c))


----------------------------------------------------------------------------
VARIABLES
  pc,                     \* the place the program is at
  app,                    \* which program runs: final.py or nrb_block.py
  arg, column, side,      \* the argument, column and side of a single call
  res1, res2,             \* what the first and the repeated call returned
  threshold,              \* match_by_name's threshold parameter
  nrb_loaded,             \* SOURCE as read_excel returned it (the caller's)
  adbl_loaded,            \* TARGET as read_csv returned it, for reference
  df_nrb, df_adbl,        \* main's tables; df_adbl is the read_csv object
  nrb_cit_col, nrb_name_col, adbl_cit_col, adbl_name_col,
  df_nrb_citizenship, df_nrb_no_citizenship,
  merged_cit,             \* the exact-match table
  fz_nrb, fz_adbl,        \* match_by_name's df_nrb and df_adbl (the copies)
  i,                      \* position of the iterrows loop
  matches,                \* match_by_name's list of merged rows
  fuzzy_matches,          \* the fuzzy-match table
  err,                    \* the exception that ended the run, or "none"
  total                   \* the reported number of matches, -1 before

unit == <<arg, column, side, res1, res2>>

selection == <<threshold, nrb_cit_col, nrb_name_col, adbl_cit_col, adbl_name_col>>

pipe == <<threshold, nrb_loaded, adbl_loaded, df_nrb, df_adbl, nrb_cit_col,
          nrb_name_col, adbl_cit_col, adbl_name_col, df_nrb_citizenship,
          df_nrb_no_citizenship, merged_cit, fz_nrb, fz_adbl, i, matches,
          fuzzy_matches, err, total>>

vars == <<pc, app, unit, pipe>>

\* The pipeline's variables while a single function is exercised
PipeIdle ==
  /\ threshold = 0
  /\ nrb_loaded = NoFrame /\ adbl_loaded = NoFrame
  /\ df_nrb = NoFrame /\ df_adbl = NoFrame
  /\ nrb_cit_col = "" /\ nrb_name_col = ""
  /\ adbl_cit_col = "" /\ adbl_name_col = ""
  /\ df_nrb_citizenship = NoFrame /\ df_nrb_no_citizenship = NoFrame
  /\ merged_cit = NoTable
  /\ fz_nrb = NoFrame /\ fz_adbl = NoFrame
  /\ i = 0
  /\ matches = <<>>
  /\ fuzzy_matches = NoTable
  /\ err = "none"
  /\ total = -1

----------------------------------------------------------------------------
(* The Script Normalizer applied twice to a loaded table *)

DigitCells ==
  {Str(<<"d1", "d2">>), Str(<<"1", "d9">>), Str(<<"a", "d0", "b">>),
   Str(<<>>), NaN, IntCell(12)}

DigitTables ==
  {df \in {Frame(<<"id", "amount">>, rows) :
             rows \in SeqUpTo([{"id", "amount"} -> DigitCells], MaxSrc)} :
     Loadable(df)}

DigitsInit ==
  /\ pc = "digits_start"
  /\ app \in Apps
  /\ arg \in DigitTables
  /\ column = ""
  /\ side = ""
  /\ res1 = NoFrame
  /\ res2 = NoFrame
  /\ PipeIdle

DigitsOnce ==
  /\ pc = "digits_start"
  /\ res1' = convert_numbers(arg)
  /\ pc' = "digits_once"
  /\ UNCHANGED <<app, arg, column, side, res2, pipe>>

DigitsTwice ==
  /\ pc = "digits_once"
  /\ res2' = convert_numbers(res1)
  /\ pc' = "digits_twice"
  /\ UNCHANGED <<app, arg, column, side, res1, pipe>>

DigitsNext == DigitsOnce \/ DigitsTwice

SpecDigits == DigitsInit /\ [][DigitsNext]_vars

\* What the Script Normalizer is to make of a cell: a str of the same length
\* with each Devanagari digit replaced by the ASCII digit of the same value
\* and every other character kept; any other cell unchanged
DigitsConverted(in, out) ==
  IF in.t = "str"
  THEN /\ out.t = "str"
       /\ Len(out.s) = Len(in.s)
       /\ \A k \in 1..Len(in.s) :
            IF in.s[k] \in Range(NepaliDigits)
            THEN \E v \in 1..10 : in.s[k] = NepaliDigits[v] /\ out.s[k] = AsciiDigits[v]
            ELSE out.s[k] = in.s[k]
  ELSE out = in

\* C10: convert_numbers replaces, in every str cell, each Devanagari digit by
\* the matching ASCII digit and keeps every other character in place, passes
\* every other cell through unchanged, and applied again changes nothing.
DigitsNormalized ==
  /\ pc \in {"digits_once", "digits_twice"} =>
       /\ res1.cols = arg.cols /\ Len(res1.rows) = Len(arg.rows)
       /\ \A k \in 1..Len(arg.rows) : \A c \in Range(arg.cols) :
            DigitsConverted(arg.rows[k][c], res1.rows[k][c])
  /\ pc = "digits_twice" => res2 = res1

\* C10 witness: a table with a Devanagari nine in a str cell and an int cell
\* has been converted twice.
DigitsWitness ==
  /\ pc = "digits_twice"
  /\ \E k \in 1..Len(arg.rows) :
       /\ arg.rows[k]["id"] = Str(<<"1", "d9">>)
       /\ res2.rows[k]["id"] = Str(<<"1", "9">>)
       /\ arg.rows[k]["amount"] = IntCell(12)

----------------------------------------------------------------------------
(* The Field Cleaner applied twice to a table *)

CleanCells ==
  {Str(<<"1">>), Str(<<" ", "1", " ">>), Str(<<" ">>), Str(<<>>),
   Str(<<"n", "a", "n">>), NaN, IntCell(12)}

CleanTables ==
  {df \in {Frame(<<"id">>, rows) :
             rows \in SeqUpTo([{"id"} -> CleanCells], MaxSrc)} :
     Loadable(df)}

NoOutcome == [err |-> "none", df |-> NoFrame]

CleanInit ==
  /\ pc = "clean_start"
  /\ app \in Apps
  /\ arg \in CleanTables
  /\ column \in {"id", "citizenship_number"}
  /\ side = ""
  /\ res1 = NoOutcome
  /\ res2 = NoOutcome
  /\ PipeIdle

\* the first call; arg is the caller's table object, assigned in place
CleanOnce ==
  /\ pc = "clean_start"
  /\ res1' = clean_column(app, arg, column)
  /\ arg' = res1'.df
  /\ pc' = IF res1'.err = "none" THEN "clean_once" ELSE "clean_failed"
  /\ UNCHANGED <<app, column, side, res2, pipe>>

\* the call repeated on the table the first call returned
CleanTwice ==
  /\ pc = "clean_once"
  /\ res2' = clean_column(app, res1.df, column)
  /\ arg' = res2'.df
  /\ pc' = "clean_twice"
  /\ UNCHANGED <<app, column, side, res1, pipe>>

CleanNext == CleanOnce \/ CleanTwice

SpecClean == CleanInit /\ [][CleanNext]_vars

\* C4: cleaning a column that was already cleaned changes nothing; a cell the
\* first cleaning made missing is still missing after the second.
CleanIdempotent ==
  (pc = "clean_twice" /\ column \in Range(res1.df.cols)) =>
    /\ res2.df = res1.df
    /\ \A k \in 1..Len(res1.df.rows) :
         isna(res1.df.rows[k][column]) => isna(res2.df.rows[k][column])

\* C5: clean_column called with a column the table does not have reports an
\* error; it does not return the table.
CleanFailsFast ==
  (pc # "clean_start" /\ column \notin Range(res1.df.cols)) =>
    res1.err # "none"

----------------------------------------------------------------------------
(* The Name Canonicalizer applied to one raw name of either side *)

MaxNameLen == 3

NameChars == {"a", "B", " ", ".", "_"}

NameCells ==
  {Str(s) : s \in SeqUpTo(NameChars, MaxNameLen)}
    \cup {NaN, IntCell(12),
          Str(<<"dKa", "dU", ".">>), Str(<<"dSha", ".">>),
          Str(<<"dKa", "dE", ".", "dSa", "dI">>)}

NameInit ==
  /\ pc = "name_start"
  /\ app = "final"
  /\ arg \in NameCells
  /\ column = ""
  /\ side \in {"nrb", "adbl"}
  /\ res1 = <<>>
  /\ res2 = <<>>
  /\ PipeIdle

Canonicalize ==
  /\ pc = "name_start"
  /\ res1' = IF side = "nrb" THEN romanized_name_nrb(arg)
             ELSE romanized_name_adbl(arg)
  /\ pc' = "name_done"
  /\ UNCHANGED <<app, arg, column, side, res2, pipe>>

NameNext == Canonicalize

SpecName == NameInit /\ [][NameNext]_vars

IsAlnum(ch) == IsWord(ch) /\ ch # "_"

\* C6: the canonical name of a raw name of either side is lowercase, has no
\* leading or trailing whitespace, holds only alphanumeric characters and
\* whitespace, has no run of two whitespace characters, and is the empty
\* string for a missing raw name.
CanonicalForm ==
  pc = "name_done" =>
    /\ \A k \in 1..Len(res1) :
         /\ res1[k] \notin Range(Uppercase)
         /\ IsAlnum(res1[k]) \/ IsSpace(res1[k])
         /\ (k < Len(res1) /\ IsSpace(res1[k])) => ~IsSpace(res1[k + 1])
    /\ res1 # <<>> => ~IsSpace(res1[1]) /\ ~IsSpace(res1[Len(res1)])
    /\ isna(arg) => res1 = <<>>

----------------------------------------------------------------------------
(* The two programs: main of final.py, and main of nrb_block.py with its
   merge_csvs_by_columns *)

DefaultThreshold == 85

\* Thresholds passed to match_by_name: main passes none (the default)
Thresholds == {80, 81, DefaultThreshold}

required_col1 == "citizenship_number"
required_col2 == "CUS_LEG_ID"

\* The (identifier, name) cells of the SOURCE and TARGET rows explored
SourcePairs ==
  {<<Str(<<" ", "d1">>), Str(<<"a", " ", "b">>)>>,
   <<NaN, Str(<<"b", " ", "a">>)>>,
   <<Str(<<" ">>), NaN>>,
   <<Str(<<"n", "a", "n">>), Str(<<"dKa", "dU", ".">>)>>}

TargetPairs ==
  {<<Str(<<"1">>), Str(<<"a", " ", "b">>)>>,
   <<Str(<<"2", " ">>), Str(<<"a", "b">>)>>,
   <<NaN, NaN>>}

\* The column labels of the two uploaded files: no label shared, every label
\* shared, and a TARGET without nrb_block.py's CUS_LEG_ID
Layouts ==
  {[src |-> <<"citizenship_number", "name">>, tgt |-> <<"CUS_LEG_ID", "CUS_NAME">>],
   [src |-> <<"id", "name">>, tgt |-> <<"id", "name">>],
   [src |-> <<"citizenship_number", "name">>, tgt |-> <<"id", "CUS_NAME">>]}

RowOf(cols, pair) == [c \in Range(cols) |-> IF c = cols[1] THEN pair[1] ELSE pair[2]]

Tables(cols, pairs, n) ==
  {df \in {Frame(cols, [k \in 1..Len(ps) |-> RowOf(cols, ps[k])]) :
             ps \in SeqUpTo(pairs, n)} :
     Loadable(df)}

Tag(name) == Str(<<name>>)

Init ==
  /\ pc = "start"
  /\ app \in Apps
  /\ arg = NoFrame /\ column = "" /\ side = ""
  /\ res1 = NoFrame /\ res2 = NoFrame
  /\ \E layout \in Layouts :
       /\ nrb_loaded \in Tables(layout.src, SourcePairs, MaxSrc)
       /\ df_adbl \in Tables(layout.tgt, TargetPairs, MaxTgt)
       \* the columns chosen in the select boxes; nrb_block.py fixes its two
       /\ nrb_cit_col = IF app = "final" THEN layout.src[1] ELSE required_col1
       /\ adbl_cit_col = IF app = "final" THEN layout.tgt[1] ELSE required_col2
       /\ nrb_name_col = layout.src[2]
       /\ adbl_name_col = layout.tgt[2]
  /\ adbl_loaded = df_adbl
  /\ threshold \in IF app = "final" THEN Thresholds ELSE {DefaultThreshold}
  /\ df_nrb = NoFrame
  /\ df_nrb_citizenship = NoFrame /\ df_nrb_no_citizenship = NoFrame
  /\ merged_cit = NoTable
  /\ fz_nrb = NoFrame /\ fz_adbl = NoFrame
  /\ i = 0
  /\ matches = <<>>
  /\ fuzzy_matches = NoTable
  /\ err = "none"
  /\ total = -1

\* df_nrb = convert_numbers(df_nrb): a new table, bound to main's name
ConvertNumbers ==
  /\ pc = "start"
  /\ df_nrb' = convert_numbers(nrb_loaded)
  /\ pc' = "converted"
  /\ UNCHANGED <<app, unit, selection, nrb_loaded, adbl_loaded, df_adbl,
                 df_nrb_citizenship, df_nrb_no_citizenship, merged_cit,
                 fz_nrb, fz_adbl, i, matches, fuzzy_matches, err, total>>

\* final.py: df_nrb = clean_column(df_nrb, nrb_cit_col)
CleanNrb ==
  /\ pc = "converted" /\ app = "final"
  /\ LET out == clean_column(app, df_nrb, nrb_cit_col)
     IN /\ df_nrb' = out.df
        /\ err' = out.err
        /\ pc' = IF out.err = "none" THEN "nrb_cleaned" ELSE "failed"
  /\ UNCHANGED <<app, unit, selection, nrb_loaded, adbl_loaded, df_adbl,
                 df_nrb_citizenship, df_nrb_no_citizenship, merged_cit,
                 fz_nrb, fz_adbl, i, matches, fuzzy_matches, total>>

\* final.py: df_adbl = clean_column(df_adbl, adbl_cit_col), on the read_csv table
CleanAdbl ==
  /\ pc = "nrb_cleaned"
  /\ LET out == clean_column(app, df_adbl, adbl_cit_col)
     IN /\ df_adbl' = out.df
        /\ err' = out.err
        /\ pc' = IF out.err = "none" THEN "cleaned" ELSE "failed"
  /\ UNCHANGED <<app, unit, selection, nrb_loaded, adbl_loaded, df_nrb,
                 df_nrb_citizenship, df_nrb_no_citizenship, merged_cit,
                 fz_nrb, fz_adbl, i, matches, fuzzy_matches, total>>

\* final.py: the rows with and without a citizenship number
Split ==
  /\ pc = "cleaned"
  /\ df_nrb_citizenship' = dropna(df_nrb, nrb_cit_col)
  /\ df_nrb_no_citizenship' = where_isna(df_nrb, nrb_cit_col)
  /\ pc' = "split"
  /\ UNCHANGED <<app, unit, selection, nrb_loaded, adbl_loaded, df_nrb,
                 df_adbl, merged_cit, fz_nrb, fz_adbl, i, matches,
                 fuzzy_matches, err, total>>

\* final.py: the exact citizenship match and its match_type
ExactMerge ==
  /\ pc = "split"
  /\ merged_cit' =
       AddColumn(merge(df_nrb_citizenship, df_adbl, nrb_cit_col, adbl_cit_col,
                       "_nrb", "_adbl"),
                 "match_type", Tag("Citizenship Match"))
  /\ pc' = "merged"
  /\ UNCHANGED <<app, unit, selection, nrb_loaded, adbl_loaded, df_nrb,
                 df_adbl, df_nrb_citizenship, df_nrb_no_citizenship, fz_nrb,
                 fz_adbl, i, matches, fuzzy_matches, err, total>>

\* match_by_name(df_nrb_no_citizenship.copy(), df_adbl.copy(), ...): the
\* romanized_name columns of the two copies, and the empty list of matches
FuzzyPrepare ==
  /\ pc = "merged"
  /\ fz_nrb' = WithRomanized(df_nrb_no_citizenship,
                  [k \in 1..Len(df_nrb_no_citizenship.rows) |->
                     romanized_name_nrb(
                       df_nrb_no_citizenship.rows[k][nrb_name_col])])
  /\ fz_adbl' = WithRomanized(df_adbl,
                  [k \in 1..Len(df_adbl.rows) |->
                     romanized_name_adbl(df_adbl.rows[k][adbl_name_col])])
  /\ matches' = <<>>
  /\ i' = 1
  /\ pc' = "fuzzy_loop"
  /\ UNCHANGED <<app, unit, selection, nrb_loaded, adbl_loaded, df_nrb,
                 df_adbl, df_nrb_citizenship, df_nrb_no_citizenship,
                 merged_cit, fuzzy_matches, err, total>>

\* The names of the TARGET rows, the choices of extractOne
Choices(df_t) == [k \in 1..Len(df_t.rows) |-> df_t.rows[k]["romanized_name"].s]

\* One pass of the loop over df_nrb.iterrows()
FuzzyRow ==
  /\ pc = "fuzzy_loop" /\ i <= Len(fz_nrb.rows)
  /\ LET name == fz_nrb.rows[i]["romanized_name"].s
         best == extractOne(name, Choices(fz_adbl))
     IN IF name = <<>>
        THEN \* if not name: continue
             /\ i' = i + 1
             /\ UNCHANGED <<pc, matches, err>>
        ELSE IF best = 0
        THEN \* extractOne returned None: the unpacking raises TypeError
             /\ err' = "TypeError"
             /\ pc' = "failed"
             /\ UNCHANGED <<i, matches>>
        ELSE LET score == token_sort_ratio(name, Choices(fz_adbl)[best])
                 j == FirstNamed(fz_adbl, Choices(fz_adbl)[best])
             IN /\ matches' =
                     IF accepts(score, threshold)
                     THEN Append(matches,
                                 [labels |-> MergedLabels(fz_nrb, fz_adbl),
                                  row |-> FuzzyRowOf(fz_nrb, fz_adbl, i, j, score)])
                     ELSE matches
                /\ i' = i + 1
                /\ UNCHANGED <<pc, err>>
  /\ UNCHANGED <<app, unit, selection, nrb_loaded, adbl_loaded, df_nrb,
                 df_adbl, df_nrb_citizenship, df_nrb_no_citizenship,
                 merged_cit, fz_nrb, fz_adbl, fuzzy_matches, total>>

\* result = pd.DataFrame(matches): rows whose labels repeat cannot be aligned
\* (InvalidIndexError); the renaming loop replaces 'nrb_' by 'nrb_' and
\* 'adbl_' by 'adbl_', so it changes no label; main adds match_type to a
\* table that is not empty
FuzzyFrame ==
  /\ pc = "fuzzy_loop" /\ i > Len(fz_nrb.rows)
  /\ IF matches = <<>>
     THEN /\ fuzzy_matches' = NoTable
          /\ pc' = "framed"
          /\ UNCHANGED err
     ELSE IF \E k \in 1..Len(matches) : HasDuplicates(matches[k].labels)
     THEN /\ err' = "InvalidIndexError"
          /\ pc' = "failed"
          /\ UNCHANGED fuzzy_matches
     ELSE /\ fuzzy_matches' =
               AddColumn([cols |-> matches[1].labels,
                          rows |-> [k \in 1..Len(matches) |-> matches[k].row]],
                         "match_type", Tag("Name Match"))
          /\ pc' = "framed"
          /\ UNCHANGED err
  /\ UNCHANGED <<app, unit, selection, nrb_loaded, adbl_loaded, df_nrb,
                 df_adbl, df_nrb_citizenship, df_nrb_no_citizenship,
                 merged_cit, fz_nrb, fz_adbl, i, matches, total>>

\* final.py: Total Matches Found
Report ==
  /\ pc = "framed"
  /\ total' = Len(merged_cit.rows) + Len(fuzzy_matches.rows)
  /\ pc' = "done"
  /\ UNCHANGED <<app, unit, selection, nrb_loaded, adbl_loaded, df_nrb,
                 df_adbl, df_nrb_citizenship, df_nrb_no_citizenship,
                 merged_cit, fz_nrb, fz_adbl, i, matches, fuzzy_matches, err>>

\* nrb_block.py: merge_csvs_by_columns(df_nrb_converted, df_adbl); any
\* exception is caught by main and shown, and no table is produced
MergeCsvsByColumns ==
  /\ pc = "converted" /\ app = "nrb_block"
  /\ IF required_col1 \notin Range(df_nrb.cols)
          \/ required_col2 \notin Range(df_adbl.cols)
     THEN /\ err' = "ValueError"
          /\ pc' = "failed"
          /\ UNCHANGED <<df_nrb, df_adbl, df_nrb_citizenship, merged_cit>>
     ELSE LET df1 == clean_column(app, df_nrb, required_col1).df
              df2 == clean_column(app, df_adbl, required_col2).df
          IN /\ df_nrb' = df1
             /\ df_adbl' = df2
             /\ df_nrb_citizenship' = dropna(df1, required_col1)
             /\ merged_cit' = merge(dropna(df1, required_col1), df2,
                                    required_col1, required_col2, "_x", "_y")
             /\ pc' = "block_merged"
             /\ UNCHANGED err
  /\ UNCHANGED <<app, unit, selection, nrb_loaded, adbl_loaded,
                 df_nrb_no_citizenship, fz_nrb, fz_adbl, i, matches,
                 fuzzy_matches, total>>

\* nrb_block.py: Total Matches Found, shown when the table is not empty
BlockReport ==
  /\ pc = "block_merged"
  /\ total' = Len(merged_cit.rows)
  /\ pc' = "done"
  /\ UNCHANGED <<app, unit, selection, nrb_loaded, adbl_loaded, df_nrb,
                 df_adbl, df_nrb_citizenship, df_nrb_no_citizenship,
                 merged_cit, fz_nrb, fz_adbl, i, matches, fuzzy_matches, err>>

Next ==
  \/ ConvertNumbers
  \/ CleanNrb
  \/ CleanAdbl
  \/ Split
  \/ ExactMerge
  \/ FuzzyPrepare
  \/ FuzzyRow
  \/ FuzzyFrame
  \/ Report
  \/ MergeCsvsByColumns
  \/ BlockReport

----------------------------------------------------------------------------
(* Properties *)

\* The run got as far as producing the exact-match table
ExactProduced == merged_cit # NoTable

\* The run of final.py got into match_by_name
FuzzyEntered == fz_adbl # NoFrame

\* The number of rows of a result table taken from SOURCE row a, TARGET row b
PairCount(out, a, b) ==
  Cardinality({k \in 1..Len(out.rows) : out.rows[k].l = a /\ out.rows[k].r = b})

\* The cell of a result row under a column label
CellAt(out, k, label) ==
  out.rows[k].vals[CHOOSE c \in 1..Len(out.cols) : out.cols[c] = label]

\* Both keys present and the same text
SameKey(a, b) == ~isna(a) /\ ~isna(b) /\ a.t = "str" /\ b.t = "str" /\ a.s = b.s

\* Join semantics of the exact-match table, in both programs: a pair of rows
\* is in the table once if its cleaned keys are present and identical, and
\* not at all otherwise
ExactPairs ==
  ExactProduced =>
    /\ \A a \in 1..Len(df_nrb.rows), b \in 1..Len(df_adbl.rows) :
         PairCount(merged_cit, df_nrb.index[a], df_adbl.index[b]) =
           IF SameKey(df_nrb.rows[a][nrb_cit_col], df_adbl.rows[b][adbl_cit_col])
           THEN 1 ELSE 0
    /\ \A k \in 1..Len(merged_cit.rows) :
         /\ merged_cit.rows[k].l \in Range(df_nrb.index)
         /\ merged_cit.rows[k].r \in Range(df_adbl.index)
    /\ "match_score" \notin Range(merged_cit.cols)

\* Every row of the exact-match table carries match_type = Citizenship Match
ExactTagged ==
  \A k \in 1..Len(merged_cit.rows) :
    /\ "match_type" \in Range(merged_cit.cols)
    /\ CellAt(merged_cit, k, "match_type") = Tag("Citizenship Match")

BestAccepted(name) ==
  \E b \in 1..Len(fz_adbl.rows) :
    accepts(token_sort_ratio(name, fz_adbl.rows[b]["romanized_name"].s), threshold)

IsBest(name, b) ==
  \A c \in 1..Len(fz_adbl.rows) :
    ScoreGeq(token_sort_ratio(name, fz_adbl.rows[b]["romanized_name"].s),
             token_sort_ratio(name, fz_adbl.rows[c]["romanized_name"].s))

FuzzyRowsOf(a) ==
  {k \in 1..Len(fuzzy_matches.rows) : fuzzy_matches.rows[k].l = fz_nrb.index[a]}

\* What C2 says of the row at position a of the no-key subset
FuzzyOutcome(a) ==
  LET name == romanized_name_nrb(df_nrb_no_citizenship.rows[a][nrb_name_col])
  IN IF name # <<>> /\ BestAccepted(name)
     THEN /\ Cardinality(FuzzyRowsOf(a)) = 1
          /\ \A k \in FuzzyRowsOf(a) :
               \E b \in 1..Len(fz_adbl.rows) :
                 /\ fz_adbl.index[b] = fuzzy_matches.rows[k].r
                 /\ IsBest(name, b)
                 /\ LET sc == token_sort_ratio(
                                name, fz_adbl.rows[b]["romanized_name"].s)
                        ms == CellAt(fuzzy_matches, k, "match_score")
                    IN ms.t = "float" /\ ms.n * sc.d = sc.n * ms.d
     ELSE FuzzyRowsOf(a) = {}

\* C2: when match_by_name has ended, every row of the no-key subset with an
\* empty canonical name has no row in the fuzzy-match table, and every other
\* row has exactly one if the best score over the TARGET rows is at least the
\* threshold (a best-scoring TARGET row, with that score as match_score) and
\* none otherwise.
FuzzyThreshold ==
  (FuzzyEntered /\ pc \in {"framed", "done", "failed"}) =>
    \A a \in 1..Len(fz_nrb.rows) : FuzzyOutcome(a)

\* C2 for tables that share no column label and a TARGET that is not empty:
\* there the run does not fail and the statement of C2 holds.
FuzzyThresholdDistinctLabels ==
  (FuzzyEntered /\ Range(df_nrb.cols) \cap Range(df_adbl.cols) = {}
     /\ pc \in {"framed", "done", "failed"}) =>
    /\ \A a \in 1..Len(fz_nrb.rows) : FuzzyOutcome(a)
    /\ pc = "failed" => Len(df_adbl.rows) = 0

\* C3: with a TARGET table of no rows, final.py's fuzzy matcher raises no
\* error and returns an empty table.
EmptyTargetNoError ==
  (app = "final" /\ Len(adbl_loaded.rows) = 0) =>
    /\ err = "none"
    /\ fuzzy_matches.rows = <<>>

\* C7: every row of the fuzzy-match table has the SOURCE labels prefixed
\* nrb_ and the TARGET labels (without the derived romanized_name) prefixed
\* adbl_, all labels distinct, and carries match_score and match_type =
\* Name Match.
FuzzyColumnsPrefixed ==
  (pc \in {"framed", "done"} /\ fuzzy_matches.rows # <<>>) =>
    /\ ~HasDuplicates(fuzzy_matches.cols)
    /\ \A c \in 1..Len(fuzzy_matches.cols) :
         \/ fuzzy_matches.cols[c] \in {"match_score", "match_type"}
         \/ \E x \in Range(fz_nrb.cols) : fuzzy_matches.cols[c] = "nrb_" \o x
         \/ \E x \in Range(df_adbl.cols) : fuzzy_matches.cols[c] = "adbl_" \o x
    /\ "match_score" \in Range(fuzzy_matches.cols)
    /\ "match_type" \in Range(fuzzy_matches.cols)
    /\ \A k \in 1..Len(fuzzy_matches.rows) :
         CellAt(fuzzy_matches, k, "match_type") = Tag("Name Match")

\* C8: in final.py every SOURCE row is in exactly one of the exact-match
\* candidates and the fuzzy-match candidates, the first if and only if its
\* cleaned key is present; the rows of the exact-match table come from the
\* first set, those of the fuzzy-match table from the second, so no SOURCE
\* row has rows in both tables.
SourcePartition ==
  (app = "final" /\ df_nrb_citizenship # NoFrame) =>
    /\ \A k \in 1..Len(df_nrb.rows) :
         /\ (df_nrb.index[k] \in Range(df_nrb_citizenship.index))
              = ~isna(df_nrb.rows[k][nrb_cit_col])
         /\ (df_nrb.index[k] \in Range(df_nrb_no_citizenship.index))
              = isna(df_nrb.rows[k][nrb_cit_col])
    /\ Len(df_nrb_citizenship.rows) + Len(df_nrb_no_citizenship.rows)
         = Len(df_nrb.rows)
    /\ \A k \in 1..Len(merged_cit.rows) :
         merged_cit.rows[k].l \in Range(df_nrb_citizenship.index)
    /\ \A k \in 1..Len(fuzzy_matches.rows) :
         fuzzy_matches.rows[k].l \in Range(df_nrb_no_citizenship.index)
    /\ \A k \in 1..Len(merged_cit.rows), h \in 1..Len(fuzzy_matches.rows) :
         merged_cit.rows[k].l # fuzzy_matches.rows[h].l

\* C8 witness: a run of final.py that ended with rows in both tables.
SourcePartitionWitness ==
  /\ app = "final" /\ pc = "done"
  /\ merged_cit.rows # <<>> /\ fuzzy_matches.rows # <<>>

\* Two cells hold the same value; a missing value counts as the same as any
\* other missing value
SameCell(a, b) == (isna(a) /\ isna(b)) \/ a = b

\* C9: when a run has ended, the TARGET table the caller passed in (the
\* read_csv table, df_adbl) has the columns and the cell values it had when
\* it was loaded.
CallerTablesUnchanged ==
  pc \in {"done", "failed"} =>
    /\ df_adbl.cols = adbl_loaded.cols
    /\ Len(df_adbl.rows) = Len(adbl_loaded.rows)
    /\ \A k \in 1..Len(df_adbl.rows) : \A c \in Range(df_adbl.cols) :
         SameCell(df_adbl.rows[k][c], adbl_loaded.rows[k][c])

Spec == Init /\ [][Next]_vars

====
